---------------------------- MODULE Spec2Model ----------------------------
(***************************************************************************)
(* Model of the batch PDDL instance generator: the domain registry of      *)
(* src/src/domains.py (parameter descriptors, adaptation functions) and    *)
(* the driver of src/src/generate-instances.py (grid enumeration, the      *)
(* configuration x seed loop, generate_task, the final clean-up).          *)
(*                                                                         *)
(* Float parameter values are held exactly, in hundredths (0.3 is 30).     *)
(* utils.py (generate_input_files, collect_task) is not part of the        *)
(* sources at hand; its two functions are modelled from the design         *)
(* document and marked so where they are defined.                          *)
(***************************************************************************)
EXTENDS Integers, Sequences, FiniteSets, TLC

VARIABLES
    float_args,        \* the arguments of the get_float call being made, if any
    domain,            \* main's domain = DOMAINS[args.domain], a Domain object
    dry_run,           \* args.dry_run
    num_random_seeds,  \* args.num_random_seeds
    time_limited,      \* whether args.generator_time_limit is set
    pc,                \* position of main()
    it,                \* position of the grid iterator: one index per parameter
    grid_len,          \* number of configurations generate_grid has produced
    cfg,               \* main's loop variable cfg (a dict), None outside the loop
    seed,              \* main's loop variable seed
    status,            \* outcome state of the current attempt
    params,            \* generate_task's local cfg after adapt_parameters
    events,            \* what the current attempt has done so far, in order
    attempts,          \* number of generate_task calls so far
    adapt_calls,       \* number of Domain.adapt_parameters calls so far
    invoked,           \* number of external generator invocations so far
    cfg_invoked,       \* generator invocations for the current grid configuration
    cfg_warnings,      \* "Skipping illegal configuration" warnings for the current one
    tmp_dir_exists,    \* whether destdir/tmp exists
    workdir,           \* producers of the files lying in the working directories
    collected,         \* the file the current attempt delivered to destdir, or None
    fs_touched,        \* whether anything under destdir was created, written or removed
    failed,            \* whether some attempt ended PROCESS_ERROR or TIMED_OUT
    printed,           \* the "Number of configurations" report, None until printed
    exit_code          \* exit status of the process, None while running

vars == <<float_args, domain, dry_run, num_random_seeds, time_limited, pc, it, grid_len, cfg, seed, status,
          params, events, attempts, adapt_calls, invoked, cfg_invoked, cfg_warnings,
          tmp_dir_exists, workdir, collected, fs_touched, failed, printed, exit_code>>

\* Largest value of --num-random-seeds the model runs.
MaxSeeds == 2

\* Full runs are modelled for the domains whose grid has at most this many
\* configurations (dry runs and grid enumeration cover every domain).
MaxRunGrid == 1550

None == "None"

TMP_PROBLEM == "tmp-problem.pddl"

TMP_DOMAIN == "tmp-domain.pddl"

\* Float values are represented exactly as multiples of 1/FloatScale.
FloatScale == 100

\* The float ranges tried on get_float have their ends at multiples of
\* FloatUnit/FloatScale, up to MaxFloatPoint of them, and a precision of
\* 1..MaxFloatPrecision of them.
FloatUnit == 10

MaxFloatPoint == 20

MaxFloatPrecision == 5

-----------------------------------------------------------------------------
(* Parameter descriptors: domains.py get_int, get_float, get_enum.         *)

\* Python's range(start, stop, step) for step > 0, as a sequence.
PyRange(start, stop, step) ==
    LET n == IF stop > start THEN (stop - start + step - 1) \div step ELSE 0
    IN  [i \in 1..n |-> start + (i - 1) * step]

get_int(name, lower, upper, log, step_size) ==
    IF step_size = 1
    THEN [kind |-> "UniformIntegerHyperparameter", name |-> name,
          lower |-> lower, upper |-> upper, default_value |-> lower, log |-> log]
    ELSE LET choices == PyRange(lower, upper + 1, step_size)
         IN  [kind |-> "CategoricalHyperparameter", name |-> name,
              choices |-> choices, default_value |-> choices[1]]

\* Faulty variant: the values are not filtered back into [lower, upper].
get_float_unfiltered(name, lower, upper, precision) ==
    IF precision > 0
    THEN LET n == (2 * (upper - lower) + precision + 2 * precision - 1)
                      \div (2 * precision)
             values == [i \in 1..n |-> lower + (i - 1) * precision]
         IN  [kind |-> "CategoricalHyperparameter", name |-> name,
              choices |-> values, default_value |-> values[1]]
    ELSE [kind |-> "UniformFloatHyperparameter", name |-> name,
          lower |-> lower, upper |-> upper, default_value |-> lower, log |-> FALSE]

\* np.arange(lower, upper + precision/2, precision): ceil((stop - start) / step)
\* values start + k * step. np.round(values, 10) leaves a multiple of 1/FloatScale
\* unchanged; the list comprehension keeps the values within [lower, upper].
get_float(name, lower, upper, precision) ==
    IF precision > 0
    THEN LET n == (2 * (upper - lower) + precision + 2 * precision - 1)
                      \div (2 * precision)
             values == [i \in 1..n |-> lower + (i - 1) * precision]
             kept == SelectSeq(values, LAMBDA v : lower <= v /\ v <= upper)
         IN  [kind |-> "CategoricalHyperparameter", name |-> name,
              choices |-> kept, default_value |-> kept[1]]
    ELSE [kind |-> "UniformFloatHyperparameter", name |-> name,
          lower |-> lower, upper |-> upper, default_value |-> lower, log |-> FALSE]

get_enum(name, choices, default_value) ==
    [kind |-> "CategoricalHyperparameter", name |-> name, choices |-> choices,
     default_value |-> IF default_value = None THEN choices[1] ELSE default_value]

Constant(name, value) ==
    [kind |-> "Constant", name |-> name, value |-> value]

\* Domain.__init__
Domain(name, generator_command, attributes, adapt_parameters) ==
    [name |-> name, attributes |-> attributes,
     command_template |-> generator_command, _adapt_parameters |-> adapt_parameters]

-----------------------------------------------------------------------------
(* The registry: domains.py DOMAINS. A command template is its sequence of  *)
(* whitespace-separated tokens, <<"ph", n>> for the placeholder {n} and     *)
(* <<"lit", s>> for literal text.                                           *)

Domain_agricola ==
    Domain("agricola",
        <<<<"lit", "GenAgricola.py">>, <<"ph", "stages">>, <<"ph", "seed">>, <<"lit", "--num_workers">>, <<"ph", "workers">>, <<"ph", "all_workers_flag">>>>,
        <<get_int("stages", 3, 20, FALSE, 1),
          get_int("workers", 3, 20, FALSE, 1),
          get_enum("all_workers_flag", <<"", "--must_create_workers">>, "")>>,
        None)

Domain_barman ==
    Domain("barman",
        <<<<"lit", "barman-generator.py">>, <<"ph", "cocktails">>, <<"ph", "ingredients">>, <<"ph", "shots">>, <<"ph", "seed">>>>,
        <<get_int("cocktails", 1, 10, FALSE, 1),
          get_int("shots", 1, 5, FALSE, 1),
          get_int("ingredients", 2, 6, FALSE, 1)>>,
        "adapt_parameters_barman")

Domain_blocksworld ==
    Domain("blocksworld",
        <<<<"lit", "blocksworld">>, <<"lit", "4">>, <<"ph", "n">>, <<"ph", "seed">>>>,
        <<get_int("n", 2, 100, FALSE, 1)>>,
        None)

Domain_briefcaseworld ==
    Domain("briefcaseworld",
        <<<<"lit", "briefcaseworld">>, <<"lit", "-o">>, <<"ph", "objects">>, <<"lit", "-s">>, <<"ph", "seed">>>>,
        <<get_int("objects", 1, 100, FALSE, 1)>>,
        None)

Domain_childsnack ==
    Domain("childsnack",
        <<<<"lit", "child-snack-generator.py">>, <<"lit", "pool">>, <<"ph", "seed">>, <<"ph", "children">>, <<"ph", "trays">>, <<"ph", "gluten_factor">>, <<"ph", "constrainedness">>>>,
        <<get_int("children", 2, 5, FALSE, 1),
          get_float("constrainedness", 100, 200, 50),
          get_int("trays", 1, 3, FALSE, 1),
          get_float("gluten_factor", 20, 80, 20)>>,
        None)

Domain_depots ==
    Domain("depots",
        <<<<"lit", "depots">>, <<"lit", "-e">>, <<"ph", "depots">>, <<"lit", "-i">>, <<"ph", "distributors">>, <<"lit", "-t">>, <<"ph", "trucks">>, <<"lit", "-p">>, <<"ph", "pallets">>, <<"lit", "-h">>, <<"ph", "hoists">>, <<"lit", "-c">>, <<"ph", "crates">>, <<"lit", "-s">>, <<"ph", "seed">>>>,
        <<get_int("depots", 1, 3, FALSE, 1),
          get_int("distributors", 2, 3, FALSE, 1),
          get_int("trucks", 2, 4, FALSE, 1),
          get_int("pallets", 3, 8, FALSE, 1),
          get_int("hoists", 3, 8, FALSE, 1),
          get_int("crates", 2, 7, FALSE, 1)>>,
        None)

Domain_driverlog ==
    Domain("driverlog",
        <<<<"lit", "dlgen">>, <<"ph", "seed">>, <<"ph", "roadjunctions">>, <<"ph", "drivers">>, <<"ph", "packages">>, <<"ph", "trucks">>>>,
        <<get_int("drivers", 1, 3, FALSE, 1),
          get_int("packages", 1, 3, FALSE, 1),
          get_int("roadjunctions", 2, 6, FALSE, 1),
          get_int("trucks", 1, 5, FALSE, 1)>>,
        None)

Domain_ferry ==
    Domain("ferry",
        <<<<"lit", "ferry">>, <<"lit", "-l">>, <<"ph", "locations">>, <<"lit", "-c">>, <<"ph", "cars">>, <<"lit", "-s">>, <<"ph", "seed">>>>,
        <<get_int("locations", 1, 30, FALSE, 1),
          get_int("cars", 1, 30, FALSE, 1)>>,
        None)

Domain_floortile ==
    Domain("floortile",
        <<<<"lit", "floortile-generator.py">>, <<"lit", "name">>, <<"ph", "rows">>, <<"ph", "columns">>, <<"ph", "robots">>, <<"lit", "seq">>, <<"ph", "seed">>>>,
        <<get_int("rows", 2, 6, FALSE, 1),
          get_int("columns", 2, 6, FALSE, 1),
          get_int("robots", 1, 6, FALSE, 1)>>,
        "adapt_parameters_floortile")

Domain_freecell ==
    Domain("freecell",
        <<<<"lit", "freecell">>, <<"lit", "-f">>, <<"ph", "cells">>, <<"lit", "-c">>, <<"ph", "columns">>, <<"lit", "-s">>, <<"lit", "4">>, <<"lit", "-0">>, <<"ph", "suite_size">>, <<"lit", "-1">>, <<"ph", "suite_size">>, <<"lit", "-2">>, <<"ph", "suite_size">>, <<"lit", "-3">>, <<"ph", "suite_size">>, <<"lit", "-i">>, <<"ph", "initial_stacks">>, <<"lit", "-r">>, <<"ph", "seed">>>>,
        <<get_int("cells", 2, 4, FALSE, 1),
          get_int("columns", 3, 8, FALSE, 1),
          get_int("suite_size", 2, 20, FALSE, 1),
          get_int("initial_stacks", 1, 8, FALSE, 1)>>,
        "adapt_parameters_freecell")

Domain_fridge ==
    Domain("fridge",
        <<<<"lit", "fridge">>, <<"lit", "-f">>, <<"ph", "fridges">>, <<"lit", "-s">>, <<"ph", "screws">>, <<"lit", "-r">>, <<"ph", "seed">>>>,
        <<get_int("fridges", 1, 30, FALSE, 1),
          get_int("screws", 1, 30, FALSE, 1)>>,
        None)

Domain_grid ==
    Domain("grid",
        <<<<"lit", "generate.py">>, <<"ph", "x">>, <<"ph", "y">>, <<"lit", "--shapes">>, <<"ph", "shapes">>, <<"lit", "--keys">>, <<"ph", "keys">>, <<"lit", "--locks">>, <<"ph", "locks">>, <<"lit", "--prob-goal">>, <<"ph", "prob_key_in_goal">>, <<"lit", "--seed">>, <<"ph", "seed">>>>,
        <<get_int("x", 2, 5, FALSE, 1),
          get_int("y", 2, 5, FALSE, 1),
          get_float("prob_key_in_goal", 50, 100, 50),
          get_int("shapes", 1, 2, FALSE, 1),
          get_int("extra_keys", 1, 2, FALSE, 1),
          get_float("percentage_cells_locked", 30, 90, 30)>>,
        "adapt_parameters_grid")

Domain_hiking ==
    Domain("hiking",
        <<<<"lit", "generator.py">>, <<"ph", "couples">>, <<"ph", "cars">>, <<"ph", "places">>, <<"ph", "seed">>>>,
        <<get_int("couples", 1, 5, FALSE, 1),
          get_int("places", 2, 10, FALSE, 1),
          get_int("cars", 1, 5, FALSE, 1)>>,
        "adapt_parameters_hiking")

Domain_maintenance ==
    Domain("maintenance",
        <<<<"lit", "maintenance">>, <<"ph", "days">>, <<"ph", "planes">>, <<"ph", "mechanics">>, <<"ph", "cities">>, <<"ph", "visits">>, <<"ph", "seed">>>>,
        <<get_int("days", 60, 300, FALSE, 20)>>,
        "adapt_parameters_maintenance")

Domain_movie ==
    Domain("movie",
        <<<<"lit", "movie">>, <<"lit", "-n">>, <<"ph", "snacks">>>>,
        <<get_int("snacks", 1, 100, FALSE, 1)>>,
        None)

Domain_mprime ==
    Domain("mprime",
        <<<<"lit", "mprime">>, <<"lit", "-l">>, <<"ph", "locations">>, <<"lit", "-f">>, <<"ph", "maxfuel">>, <<"lit", "-s">>, <<"ph", "maxspace">>, <<"lit", "-v">>, <<"ph", "vehicles">>, <<"lit", "-c">>, <<"ph", "cargos">>, <<"lit", "-r">>, <<"ph", "seed">>>>,
        <<get_enum("locations", <<3, 4, 5, 6, 8, 10>>, None),
          get_enum("maxfuel", <<3, 4, 5, 6, 8, 10>>, None),
          get_enum("maxspace", <<1, 2, 3>>, None),
          get_enum("vehicles", <<1, 2, 3, 4, 6, 8>>, None),
          get_enum("cargos", <<1, 2, 3, 4, 5, 6, 8, 10, 12>>, None)>>,
        None)

Domain_mystery ==
    Domain("mystery",
        <<<<"lit", "mystery">>, <<"lit", "-l">>, <<"ph", "locations">>, <<"lit", "-f">>, <<"ph", "maxfuel">>, <<"lit", "-s">>, <<"ph", "maxspace">>, <<"lit", "-v">>, <<"ph", "vehicles">>, <<"lit", "-c">>, <<"ph", "cargos">>, <<"lit", "-r">>, <<"ph", "seed">>>>,
        <<get_int("locations", 5, 25, FALSE, 5),
          get_int("maxfuel", 10, 15, FALSE, 5),
          get_int("maxspace", 2, 4, FALSE, 2),
          get_int("vehicles", 2, 16, FALSE, 2),
          get_int("cargos", 5, 50, FALSE, 5)>>,
        None)

Domain_npuzzle ==
    Domain("npuzzle",
        <<<<"lit", "n-puzzle-generator">>, <<"lit", "-n">>, <<"ph", "size">>, <<"lit", "-s">>, <<"ph", "seed">>>>,
        <<Constant("size", 3)>>,
        None)

Domain_pathways ==
    Domain("pathways",
        <<<<"lit", "wrapper.py">>, <<"lit", "--seed">>, <<"ph", "seed">>, <<"lit", "--reactions">>, <<"ph", "reactions">>, <<"lit", "--goals">>, <<"ph", "goals">>, <<"lit", "--initial-substances">>, <<"ph", "substances">>, <<"lit", "tmp-domain.pddl">>, <<"lit", "tmp-problem.pddl">>>>,
        <<get_int("reactions", 10, 1010, FALSE, 50),
          get_int("goals", 10, 90, FALSE, 10),
          get_int("substances", 10, 80, FALSE, 10)>>,
        None)

Domain_sokoban ==
    Domain("sokoban",
        <<<<"lit", "random/sokoban-generator-typed">>, <<"lit", "-n">>, <<"ph", "grid_size">>, <<"lit", "-b">>, <<"ph", "boxes">>, <<"lit", "-w">>, <<"ph", "walls">>, <<"lit", "-s">>, <<"ph", "seed">>>>,
        <<get_int("grid_size", 5, 10, FALSE, 1),
          get_int("boxes", 1, 10, FALSE, 1),
          get_int("walls", 0, 10, FALSE, 1)>>,
        "adapt_parameters_sokoban")

Domain_tetris ==
    Domain("tetris",
        <<<<"lit", "generator.py">>, <<"ph", "rows">>, <<"ph", "block_type">>, <<"ph", "seed">>>>,
        <<get_int("rows", 4, 50, FALSE, 1),
          get_enum("block_type", <<"1", "2", "3", "4">>, "1")>>,
        "adapt_parameters_tetris")

Domain_tidybot ==
    Domain("tidybot",
        <<<<"lit", "gentidy.py">>, <<"ph", "worldsize">>, <<"ph", "tables">>, <<"ph", "cupboards">>, <<"ph", "mintablesize">>, <<"ph", "maxtablesize">>, <<"ph", "cupboardsize">>, <<"ph", "seed">>>>,
        <<get_int("worldsize", 5, 15, FALSE, 1),
          get_int("tables", 0, 10, FALSE, 2),
          get_int("cupboards", 1, 3, FALSE, 1),
          get_int("mintablesize", 1, 5, FALSE, 2),
          get_int("maxtablesize", 1, 5, FALSE, 2),
          get_int("cupboardsize", 4, 5, FALSE, 1)>>,
        "adapt_parameters_tidybot")

Domain_schedule ==
    Domain("schedule",
        <<<<"lit", "./schedule">>, <<"lit", "-p">>, <<"ph", "parts">>, <<"lit", "-s">>, <<"ph", "shapes">>, <<"lit", "-c">>, <<"ph", "colors">>, <<"lit", "-w">>, <<"ph", "widths">>, <<"lit", "-o">>, <<"ph", "orientations">>, <<"lit", "-Q">>, <<"ph", "prob_cylindrical_goal">>, <<"lit", "-W">>, <<"ph", "prob_color_init">>, <<"lit", "-E">>, <<"ph", "prob_color_goal">>, <<"lit", "-R">>, <<"ph", "prob_hole_init">>, <<"lit", "-T">>, <<"ph", "prob_hole_goal">>, <<"lit", "-Y">>, <<"ph", "prob_surface_goal">>, <<"lit", "-r">>, <<"ph", "seed">>>>,
        <<get_int("parts", 1, 3, FALSE, 1),
          get_int("shapes", 0, 1, FALSE, 1),
          get_int("colors", 1, 2, FALSE, 1),
          get_int("widths", 1, 2, FALSE, 1),
          get_int("orientations", 1, 2, FALSE, 1),
          get_int("prob_cylindrical_goal", 0, 100, TRUE, 30),
          get_int("prob_color_init", 0, 100, FALSE, 30),
          get_int("prob_color_goal", 0, 100, FALSE, 30),
          get_int("prob_hole_init", 0, 100, FALSE, 30),
          get_int("prob_hole_goal", 0, 100, FALSE, 30),
          get_int("prob_surface_goal", 0, 100, FALSE, 30)>>,
        None)

Domain_spanner ==
    Domain("spanner",
        <<<<"lit", "spanner-generator.py">>, <<"lit", "--seed">>, <<"ph", "seed">>, <<"ph", "spanners">>, <<"ph", "nuts">>, <<"ph", "locations">>>>,
        <<get_int("spanners", 1, 5, FALSE, 1),
          get_int("nuts", 1, 5, FALSE, 1),
          get_int("locations", 1, 10, FALSE, 1)>>,
        "adapt_parameters_spanner")

Domain_tpp ==
    Domain("tpp",
        <<<<"lit", "tpp">>, <<"lit", "-s">>, <<"ph", "seed">>, <<"lit", "-m">>, <<"ph", "markets">>, <<"lit", "-p">>, <<"ph", "products">>, <<"lit", "-t">>, <<"ph", "trucks">>, <<"lit", "-d">>, <<"ph", "depots">>, <<"lit", "-l">>, <<"ph", "goods">>, <<"lit", "tmp-problem.pddl">>>>,
        <<get_int("products", 2, 20, FALSE, 1),
          get_int("markets", 1, 10, FALSE, 1),
          get_int("trucks", 2, 10, FALSE, 1),
          get_int("depots", 1, 10, FALSE, 1),
          get_int("goods", 3, 10, FALSE, 1)>>,
        None)

Domain_tsp ==
    Domain("tsp",
        <<<<"lit", "tsp">>, <<"lit", "-n">>, <<"ph", "locations">>>>,
        <<get_int("locations", 2, 20, FALSE, 1)>>,
        None)

Domain_visitall ==
    Domain("visitall",
        <<<<"lit", "grid">>, <<"lit", "-x">>, <<"ph", "grid_width">>, <<"lit", "-y">>, <<"ph", "grid_height">>, <<"lit", "-u">>, <<"ph", "unavailable_cells">>, <<"lit", "-r">>, <<"ph", "ratio_goal_cells">>, <<"lit", "-s">>, <<"ph", "seed">>>>,
        <<get_int("grid_width", 2, 3, FALSE, 1),
          get_int("grid_height", 2, 3, FALSE, 1),
          get_enum("unavailable_cells", <<0>>, None),
          get_float("ratio_goal_cells", 50, 100, 50)>>,
        None)

DOMAINS ==
    <<Domain_agricola,
      Domain_barman,
      Domain_blocksworld,
      Domain_briefcaseworld,
      Domain_childsnack,
      Domain_depots,
      Domain_driverlog,
      Domain_ferry,
      Domain_floortile,
      Domain_freecell,
      Domain_fridge,
      Domain_grid,
      Domain_hiking,
      Domain_maintenance,
      Domain_movie,
      Domain_mprime,
      Domain_mystery,
      Domain_npuzzle,
      Domain_pathways,
      Domain_sokoban,
      Domain_tetris,
      Domain_tidybot,
      Domain_schedule,
      Domain_spanner,
      Domain_tpp,
      Domain_tsp,
      Domain_visitall>>

\* get_domains(): name -> Domain
get_domains ==
    LET by_name(ds) == [n \in {ds[i].name : i \in DOMAIN ds} |->
                          ds[CHOOSE i \in DOMAIN ds : ds[i].name = n]]
    IN  by_name(DOMAINS)

DomainNames == DOMAIN get_domains

-----------------------------------------------------------------------------
(* Grid enumeration: main() lines 73-95 and ConfigSpace's generate_grid.   *)

\* np.round of the fraction a / b (b > 0, a >= 0): ties go to the even integer.
RoundHalfEven(a, b) ==
    LET q == a \div b
        r == a % b
    IN  IF 2 * r < b THEN q
        ELSE IF 2 * r > b THEN q + 1
        ELSE IF q % 2 = 0 THEN q ELSE q + 1

\* Faulty variant: one step too few.
NumSteps_one_less(hp) == hp.upper - hp.lower

\* main(): the entry of num_steps_dict for an integer-range hyperparameter.
NumSteps(hp) == hp.upper - hp.lower + 1

\* generate_grid's value set of one hyperparameter: all choices of a categorical,
\* the value of a constant, and for an integer range
\* np.round(np.linspace(lower, upper, num_steps)) clipped to [lower, upper].
ValueSet(hp) ==
    CASE hp.kind = "CategoricalHyperparameter" -> hp.choices
      [] hp.kind = "Constant" -> <<hp.value>>
      [] hp.kind = "UniformIntegerHyperparameter" ->
            LET n == NumSteps(hp)
                point(i) ==
                    IF n = 1 THEN hp.lower
                    ELSE RoundHalfEven(hp.lower * (n - 1)
                                       + (i - 1) * (hp.upper - hp.lower), n - 1)
                clip(v) == IF v < hp.lower THEN hp.lower
                           ELSE IF v > hp.upper THEN hp.upper ELSE v
            IN  [i \in 1..n |-> clip(point(i))]

\* d is a Domain object, as main()'s variable domain.
Attributes(d) == d.attributes

\* itertools.product: the first element of the cartesian product ...
FirstIt(d) == [i \in 1..Len(Attributes(d)) |-> 1]

\* ... whether an element is the last one ...
IsLastIt(d, i) ==
    \A k \in 1..Len(Attributes(d)) : i[k] = Len(ValueSet(Attributes(d)[k]))

\* ... and the element after i: the rightmost position that can advance does,
\* the positions to its right start over.
NextIt(d, i) ==
    LET k == CHOOSE k \in 1..Len(i) :
                 /\ i[k] < Len(ValueSet(Attributes(d)[k]))
                 /\ \A j \in (k + 1)..Len(i) : i[j] = Len(ValueSet(Attributes(d)[j]))
    IN  [j \in 1..Len(i) |-> IF j < k THEN i[j] ELSE IF j = k THEN i[j] + 1 ELSE 1]

\* The configuration at a grid position, as the dict main() iterates over.
ConfigAt(d, i) ==
    LET attrs == Attributes(d)
        pos(n) == CHOOSE k \in 1..Len(attrs) : attrs[k].name = n
    IN  [n \in {attrs[k].name : k \in 1..Len(attrs)} |->
            ValueSet(attrs[pos(n)])[i[pos(n)]]]

-----------------------------------------------------------------------------
(* Adaptation functions: domains.py lines 97-170. Each works on the dict   *)
(* it is given and either returns it or raises IllegalConfiguration; the   *)
(* result is [ok, parameters, reason].                                     *)

NoCfg == [n \in {} |-> 0]

\* parameters[key] = value
DictSet(parameters, key, value) ==
    [n \in (DOMAIN parameters) \cup {key} |-> IF n = key THEN value ELSE parameters[n]]

Min(a, b) == IF a <= b THEN a ELSE b

Max(a, b) == IF a >= b THEN a ELSE b

Returned(parameters) == [ok |-> TRUE, parameters |-> parameters, reason |-> ""]

IllegalConfiguration(parameters, reason) ==
    [ok |-> FALSE, parameters |-> parameters, reason |-> reason]

\* Faulty variant: equal counts are rejected too.
adapt_parameters_barman_strict(parameters) ==
    IF parameters["shots"] <= parameters["cocktails"]
    THEN IllegalConfiguration(parameters, "we need shots >= cocktails")
    ELSE Returned(parameters)

adapt_parameters_barman(parameters) ==
    IF parameters["shots"] < parameters["cocktails"]
    THEN IllegalConfiguration(parameters, "we need shots >= cocktails")
    ELSE Returned(parameters)

adapt_parameters_floortile(parameters) ==
    Returned(DictSet(parameters, "robots",
                     Min(parameters["robots"], parameters["columns"])))

adapt_parameters_freecell(parameters) ==
    IF parameters["initial_stacks"] > parameters["columns"]
    THEN IllegalConfiguration(parameters, "we need initial_stacks <= columns")
    ELSE Returned(parameters)

\* Faulty variant: the number of keys is stored under "shapes".
adapt_parameters_grid_wrong_key(parameters) ==
    LET p1 == DictSet(parameters, "shapes",
                      Min(parameters["x"] * parameters["y"] - 1, parameters["shapes"]))
        p2 == DictSet(p1, "shapes",
                      Min(p1["x"] * p1["y"] - 1, p1["shapes"] + p1["extra_keys"]))
        p3 == DictSet(p2, "locks",
                      (p2["x"] * p2["y"] * p2["percentage_cells_locked"]) \div FloatScale)
        p4 == DictSet(p3, "locks", Max(p3["locks"], p3["shapes"]))
    IN  Returned(p4)

\* Faulty variant: the number of locks is not raised to the number of shapes.
adapt_parameters_grid_no_max(parameters) ==
    LET p1 == DictSet(parameters, "shapes",
                      Min(parameters["x"] * parameters["y"] - 1, parameters["shapes"]))
        p2 == DictSet(p1, "keys",
                      Min(p1["x"] * p1["y"] - 1, p1["shapes"] + p1["extra_keys"]))
        p3 == DictSet(p2, "locks",
                      (p2["x"] * p2["y"] * p2["percentage_cells_locked"]) \div FloatScale)
    IN  Returned(p3)

\* Faulty variant: the number of locks is not set.
adapt_parameters_grid_no_locks(parameters) ==
    LET p1 == DictSet(parameters, "shapes",
                      Min(parameters["x"] * parameters["y"] - 1, parameters["shapes"]))
        p2 == DictSet(p1, "keys",
                      Min(p1["x"] * p1["y"] - 1, p1["shapes"] + p1["extra_keys"]))
    IN  Returned(p2)

\* int(x * y * percentage_cells_locked) truncates; the product is not negative.
adapt_parameters_grid(parameters) ==
    LET p1 == DictSet(parameters, "shapes",
                      Min(parameters["x"] * parameters["y"] - 1, parameters["shapes"]))
        p2 == DictSet(p1, "keys",
                      Min(p1["x"] * p1["y"] - 1, p1["shapes"] + p1["extra_keys"]))
        p3 == DictSet(p2, "locks",
                      (p2["x"] * p2["y"] * p2["percentage_cells_locked"]) \div FloatScale)
        p4 == DictSet(p3, "locks", Max(p3["locks"], p3["shapes"]))
    IN  Returned(p4)

adapt_parameters_hiking(parameters) ==
    IF parameters["cars"] < parameters["couples"] + 1
    THEN IllegalConfiguration(parameters, "we need cars >= couples + 1")
    ELSE Returned(parameters)

\* Faulty variant: the number of cities is not set.
adapt_parameters_maintenance_no_cities(parameters) ==
    LET p1 == DictSet(parameters, "planes", 3 * parameters["days"])
        p2 == DictSet(p1, "mechanics", 1)
        p4 == DictSet(p2, "visits", 5)
    IN  Returned(p4)

adapt_parameters_maintenance(parameters) ==
    LET p1 == DictSet(parameters, "planes", 3 * parameters["days"])
        p2 == DictSet(p1, "mechanics", 1)
        p3 == DictSet(p2, "cities", 3)
        p4 == DictSet(p3, "visits", 5)
    IN  Returned(p4)

adapt_parameters_spanner(parameters) ==
    IF parameters["spanners"] < parameters["nuts"]
    THEN IllegalConfiguration(parameters, "we need spanners >= nuts")
    ELSE Returned(parameters)

\* bound is 2 for grid_size <= 5 and (grid_size^2 - 5 grid_size + 6) / 9.0
\* otherwise; boxes > bound is compared without the division.
adapt_parameters_sokoban(parameters) ==
    LET grid_size == parameters["grid_size"]
        too_many == IF grid_size <= 5
                    THEN parameters["boxes"] > 2
                    ELSE 9 * parameters["boxes"]
                             > grid_size * grid_size - 5 * grid_size + 6
    IN  IF too_many
        THEN IllegalConfiguration(parameters, "we need boxes <= bound")
        ELSE Returned(parameters)

adapt_parameters_tetris(parameters) ==
    IF parameters["rows"] % 2 = 1
    THEN IllegalConfiguration(parameters, "number of rows must be even")
    ELSE Returned(parameters)

adapt_parameters_tidybot(parameters) ==
    IF parameters["mintablesize"] > parameters["maxtablesize"]
    THEN IllegalConfiguration(parameters, "mintablesize must be <= maxtablesize")
    ELSE Returned(parameters)

\* The callable a Domain's _adapt_parameters field names.
CallAdapt(f, parameters) ==
    CASE f = "adapt_parameters_barman" -> adapt_parameters_barman(parameters)
      [] f = "adapt_parameters_floortile" -> adapt_parameters_floortile(parameters)
      [] f = "adapt_parameters_freecell" -> adapt_parameters_freecell(parameters)
      [] f = "adapt_parameters_grid" -> adapt_parameters_grid(parameters)
      [] f = "adapt_parameters_hiking" -> adapt_parameters_hiking(parameters)
      [] f = "adapt_parameters_maintenance" -> adapt_parameters_maintenance(parameters)
      [] f = "adapt_parameters_spanner" -> adapt_parameters_spanner(parameters)
      [] f = "adapt_parameters_sokoban" -> adapt_parameters_sokoban(parameters)
      [] f = "adapt_parameters_tetris" -> adapt_parameters_tetris(parameters)
      [] f = "adapt_parameters_tidybot" -> adapt_parameters_tidybot(parameters)

\* Faulty variant: the adaptation function works on the caller's dict itself,
\* self._adapt_parameters(parameters).
Domain_adapt_parameters_no_copy(d, parameters) ==
    IF d._adapt_parameters /= None
    THEN LET r == CallAdapt(d._adapt_parameters, parameters)
         IN  [ok |-> r.ok, parameters |-> r.parameters, reason |-> r.reason,
              arg |-> r.parameters]
    ELSE [ok |-> TRUE, parameters |-> parameters, reason |-> "", arg |-> parameters]

\* Domain.adapt_parameters: the adaptation function gets a copy, so the dict of
\* the caller (arg) is as it was, whatever the function did to its own.
Domain_adapt_parameters(d, parameters) ==
    IF d._adapt_parameters /= None
    THEN LET r == CallAdapt(d._adapt_parameters, parameters)
         IN  [ok |-> r.ok, parameters |-> r.parameters, reason |-> r.reason,
              arg |-> parameters]
    ELSE [ok |-> TRUE, parameters |-> parameters, reason |-> "", arg |-> parameters]

\* Domain.get_generator_command: the template with every placeholder replaced
\* by the value of that name (seed, or a key of parameters); a placeholder that
\* names neither raises KeyError.
get_generator_command(d, parameters, s) ==
    LET template == d.command_template
        known(t) == t[1] = "lit" \/ t[2] = "seed" \/ t[2] \in DOMAIN parameters
    IN  IF \E k \in 1..Len(template) : ~known(template[k])
        THEN [raises |-> "KeyError", command |-> <<>>]
        ELSE [raises |-> "",
              command |-> [k \in 1..Len(template) |->
                  IF template[k][1] = "lit" THEN template[k]
                  ELSE IF template[k][2] = "seed" THEN <<"val", s>>
                  ELSE <<"val", parameters[template[k][2]]>>]]

\* TMP_PROBLEM in self.command_template
uses_tmp_problem(d) ==
    \E k \in 1..Len(d.command_template) :
        d.command_template[k] = <<"lit", TMP_PROBLEM>>

\* Domain.uses_per_instance_domain_file
uses_per_instance_domain_file(d) ==
    \E k \in 1..Len(d.command_template) :
        d.command_template[k] = <<"lit", TMP_DOMAIN>>

SortedKeys ==
    <<"all_workers_flag", "block_type", "boxes", "cargos", "cars", "cells",
      "children", "cities", "cocktails", "colors", "columns",
      "constrainedness", "couples", "crates", "cupboards", "cupboardsize",
      "days", "depots", "distributors", "drivers", "extra_keys", "fridges",
      "gluten_factor", "goals", "goods", "grid_height", "grid_size",
      "grid_width", "hoists", "ingredients", "initial_stacks", "keys",
      "locations", "locks", "markets", "maxfuel", "maxspace", "maxtablesize",
      "mechanics", "mintablesize", "n", "nuts", "objects", "orientations",
      "packages", "pallets", "parts", "percentage_cells_locked", "places",
      "planes", "prob_color_goal", "prob_color_init", "prob_cylindrical_goal",
      "prob_hole_goal", "prob_hole_init", "prob_key_in_goal",
      "prob_surface_goal", "products", "ratio_goal_cells", "reactions",
      "roadjunctions", "robots", "rows", "screws", "shapes", "shots", "size",
      "snacks", "spanners", "stages", "substances", "suite_size",
      "tables", "trays", "trucks", "unavailable_cells", "vehicles", "visits",
      "walls", "widths", "workers", "worldsize", "x", "y">>
-----------------------------------------------------------------------------
(* utils.py, modelled from the design document.                            *)

\* collect_task's canonical artifact name: the domain name, the adapted
\* configuration as its key=value tokens in key order, and the seed.
CanonicalName(d, parameters, s) ==
    LET keys == SelectSeq(SortedKeys, LAMBDA k : k \in DOMAIN parameters)
    IN  <<d.name, [i \in 1..Len(keys) |-> <<keys[i], parameters[keys[i]]>>], s>>

\* generate_input_files makes the working directory destdir/tmp when it is
\* not there: whether it exists afterwards.
MakeWorkingDirectory(exists) == TRUE

\* The files of the working directories, each "absent", "own" (written by the
\* generator of the current attempt) or "stale" (left by an earlier attempt).
NoFiles ==
    [tmp_problem |-> "absent", tmp_domain |-> "absent", problem_file |-> "absent",
     problem_complete |-> FALSE, domain_file |-> "absent"]

\* A new attempt starts: what the previous ones left is not its own.
Aged(w) ==
    LET old(f) == IF f = "absent" THEN "absent" ELSE "stale"
    IN  [tmp_problem |-> old(w.tmp_problem), tmp_domain |-> old(w.tmp_domain),
         problem_file |-> old(w.problem_file), problem_complete |-> w.problem_complete,
         domain_file |-> old(w.domain_file)]

\* generate_input_files up to the start of the generator: the working directory
\* exists, and a generator that prints to stdout has its output file opened
\* (created or truncated) by Domain.generate_problem.
FilesAtStart(d, w) ==
    IF uses_tmp_problem(d) THEN w
    ELSE [w EXCEPT !.problem_file = "own", !.problem_complete = FALSE]

\* Domain.generate_problem after the generator exited zero: the sentinel files
\* the generator wrote are moved to the problem and domain file.
FilesAfterExitZero(d, w) ==
    LET w1 == IF uses_tmp_problem(d)
              THEN [w EXCEPT !.tmp_problem = "absent", !.problem_file = "own",
                             !.problem_complete = TRUE]
              ELSE [w EXCEPT !.problem_complete = TRUE]
    IN  IF uses_per_instance_domain_file(d)
        THEN [w1 EXCEPT !.tmp_domain = "absent", !.domain_file = "own"]
        ELSE w1

\* Faulty variant: the exit status is not checked, the files are moved anyway.
FilesAfterFailure_moved(d, w) == {FilesAfterExitZero(d, w)}

\* What a generator that failed or was killed may leave behind: the sentinel
\* files it had written by then, or none.
FilesAfterFailure(d, w) ==
    {[w EXCEPT !.tmp_problem = IF p THEN "own" ELSE @,
               !.tmp_domain = IF q THEN "own" ELSE @] :
        p \in IF uses_tmp_problem(d) THEN BOOLEAN ELSE {FALSE},
        q \in IF uses_per_instance_domain_file(d) THEN BOOLEAN ELSE {FALSE}}

\* collect_task: the problem file (and the per-instance domain file) go to
\* destdir under the canonical name.
collect_task(d, parameters, s, w) ==
    [name |-> CanonicalName(d, parameters, s),
     problem |-> w.problem_file,
     domain_file |-> IF uses_per_instance_domain_file(d) THEN w.domain_file
                     ELSE "absent"]

-----------------------------------------------------------------------------
(* The driver: generate-instances.py main() and generate_task().           *)

NoFile == [name |-> <<>>, problem |-> "absent", domain_file |-> "absent"]

Terminal == {"SUCCEEDED", "REJECTED", "PROCESS_ERROR", "TIMED_OUT"}

\* Faulty variant: the seeds start at 1.
SeedRange_from_one(n) == PyRange(1, n, 1)

\* Faulty variant: the seeds come in descending order.
SeedRange_descending(n) == [i \in 1..n |-> n - i]

\* range(args.num_random_seeds)
SeedRange(n) == PyRange(0, n, 1)

\* Faulty variant: --dry-run is ignored.
ReturnsAfterGrid_never(dry) == FALSE

\* main() line 96: whether the run returns right after the grid is built.
ReturnsAfterGrid(dry) == dry

\* Faulty variant: no return after the warning.
AfterAdapt_no_return(ok) == "generate_input_files"

\* generate_task lines 45-49: where it goes after adapt_parameters.
AfterAdapt(ok) == IF ok THEN "generate_input_files" ELSE "for_seed"

\* Faulty variant: a failed generator ends the run (the exception is not caught).
AfterGenerator_abort(outcome) == IF outcome = "exit0" THEN "collect_task" ELSE "exit"

\* Faulty variant: no return after the error is logged.
AfterGenerator_always_collect(outcome) == "collect_task"

\* generate_task lines 52-61: where it goes after the generator ended.
AfterGenerator(outcome) == IF outcome = "exit0" THEN "collect_task" ELSE "for_seed"

\* subprocess.run(check=True, timeout=...): how the generator can end.
Outcomes(limited) ==
    IF limited THEN {"exit0", "nonzero", "timeout"} ELSE {"exit0", "nonzero"}

\* The number of elements of generate_grid's cartesian product, used to pick
\* the domains whose full run is modelled.
GridSize(d) ==
    LET attrs == Attributes(d)
        prod[k \in 0..Len(attrs)] ==
            IF k = 0 THEN 1 ELSE prod[k - 1] * Len(ValueSet(attrs[k]))
    IN  prod[Len(attrs)]

RunDomains == {d \in DomainNames : GridSize(get_domains[d]) <= MaxRunGrid}

\* No get_float call is under way.
NoFloatArgs == [lower |-> 0, upper |-> 0, precision |-> 0]

StartState(d) ==
    /\ float_args = NoFloatArgs
    /\ domain = get_domains[d]
    /\ pc = "generate_grid"
    /\ it = FirstIt(get_domains[d])
    /\ grid_len = 0
    /\ cfg = NoCfg
    /\ seed = -1
    /\ status = "NONE"
    /\ params = NoCfg
    /\ events = <<>>
    /\ attempts = 0
    /\ adapt_calls = 0
    /\ invoked = 0
    /\ cfg_invoked = 0
    /\ cfg_warnings = 0
    /\ tmp_dir_exists = FALSE
    /\ workdir = NoFiles
    /\ collected = NoFile
    /\ fs_touched = FALSE
    /\ failed = FALSE
    /\ printed = -1
    /\ exit_code = -1

\* After parse_args and the construction of the configuration space. A domain
\* outside RunDomains is run with --dry-run only.
Init ==
    \E d \in DomainNames :
        /\ StartState(d)
        /\ IF d \in RunDomains
           THEN /\ dry_run \in BOOLEAN
                /\ num_random_seeds \in 0..MaxSeeds
                /\ time_limited \in BOOLEAN
           ELSE /\ dry_run = TRUE
                /\ num_random_seeds = 1
                /\ time_limited = FALSE

\* generate_grid appends the next element of the cartesian product.
generate_grid ==
    /\ pc = "generate_grid"
    /\ grid_len' = grid_len + 1
    /\ IF IsLastIt(domain, it)
       THEN pc' = "dry_run" /\ it' = <<>>
       ELSE pc' = "generate_grid" /\ it' = NextIt(domain, it)
    /\ UNCHANGED <<float_args, domain, dry_run, num_random_seeds, time_limited, cfg, seed, status,
                   params, events, attempts, adapt_calls, invoked, cfg_invoked,
                   cfg_warnings, tmp_dir_exists, workdir, collected, fs_touched,
                   failed, printed, exit_code>>

\* main() lines 96-98: return on --dry-run, else start iterating over the grid.
check_dry_run ==
    /\ pc = "dry_run"
    /\ IF ReturnsAfterGrid(dry_run)
       THEN pc' = "exit" /\ exit_code' = 0 /\ it' = it
       ELSE pc' = "for_cfg" /\ exit_code' = exit_code /\ it' = FirstIt(domain)
    /\ UNCHANGED <<float_args, domain, dry_run, num_random_seeds, time_limited, grid_len, cfg,
                   seed, status, params, events, attempts, adapt_calls, invoked,
                   cfg_invoked, cfg_warnings, tmp_dir_exists, workdir, collected,
                   fs_touched, failed, printed>>

\* main() lines 98-99: the next configuration of the grid, or the end of the loop.
for_cfg ==
    /\ pc = "for_cfg"
    /\ IF it = <<>>
       THEN /\ pc' = "rmtree"
            /\ UNCHANGED <<it, cfg, seed, cfg_invoked, cfg_warnings>>
       ELSE /\ pc' = "for_seed"
            /\ cfg' = ConfigAt(domain, it)
            /\ it' = IF IsLastIt(domain, it) THEN <<>> ELSE NextIt(domain, it)
            /\ seed' = -1
            /\ cfg_invoked' = 0
            /\ cfg_warnings' = 0
    /\ UNCHANGED <<float_args, domain, dry_run, num_random_seeds, time_limited, grid_len, status,
                   params, events, attempts, adapt_calls, invoked, tmp_dir_exists,
                   workdir, collected, fs_touched, failed, printed, exit_code>>

\* main() lines 100-103: the next seed and the call of generate_task, or the end
\* of the seed loop.
for_seed ==
    /\ pc = "for_seed"
    /\ LET seeds == SeedRange(num_random_seeds)
           rest == SelectSeq(seeds, LAMBDA s : s > seed)
       IN  IF rest = <<>>
           THEN /\ pc' = "for_cfg"
                /\ UNCHANGED <<seed, status, params, events, attempts, collected,
                               workdir>>
           ELSE /\ pc' = "adapt_parameters"
                /\ seed' = rest[1]
                /\ status' = "PENDING"
                /\ params' = cfg
                /\ events' = <<>>
                /\ attempts' = attempts + 1
                /\ collected' = NoFile
                /\ workdir' = Aged(workdir)
    /\ UNCHANGED <<float_args, domain, dry_run, num_random_seeds, time_limited, it, grid_len, cfg,
                   adapt_calls, invoked, cfg_invoked, cfg_warnings, tmp_dir_exists,
                   fs_touched, failed, printed, exit_code>>

\* generate_task lines 45-49: adapt the configuration; an illegal one is logged
\* and the attempt is over.
adapt_parameters ==
    /\ pc = "adapt_parameters"
    /\ LET r == Domain_adapt_parameters(domain, params)
       IN  /\ adapt_calls' = adapt_calls + 1
           /\ cfg' = r.arg
           /\ pc' = AfterAdapt(r.ok)
           /\ IF r.ok
              THEN /\ params' = r.parameters
                   /\ status' = "ADAPTED"
                   /\ events' = Append(events, "adapt")
                   /\ cfg_warnings' = cfg_warnings
              ELSE /\ params' = r.arg
                   /\ status' = "REJECTED"
                   /\ events' = events \o <<"IllegalConfiguration", "warning">>
                   /\ cfg_warnings' = cfg_warnings + 1
    /\ UNCHANGED <<float_args, domain, dry_run, num_random_seeds, time_limited, it, grid_len, seed,
                   attempts, invoked, cfg_invoked, tmp_dir_exists, workdir, collected,
                   fs_touched, failed, printed, exit_code>>

\* generate_task line 53, up to the start of the external generator:
\* generate_input_files makes the working directory, builds the command
\* (Domain.get_generator_command) and Domain.generate_problem starts the process.
generate_input_files ==
    /\ pc = "generate_input_files"
    /\ tmp_dir_exists' = MakeWorkingDirectory(tmp_dir_exists)
    /\ fs_touched' = TRUE
    /\ IF get_generator_command(domain, params, seed).raises /= ""
       THEN /\ pc' = "exit"
            /\ exit_code' = 1
            /\ events' = Append(events, "KeyError")
            /\ UNCHANGED <<status, invoked, cfg_invoked, workdir>>
       ELSE /\ pc' = "generator"
            /\ exit_code' = exit_code
            /\ status' = "INVOKED"
            /\ events' = Append(events, "invoke")
            /\ invoked' = invoked + 1
            /\ cfg_invoked' = cfg_invoked + 1
            /\ workdir' = FilesAtStart(domain, workdir)
    /\ UNCHANGED <<float_args, domain, dry_run, num_random_seeds, time_limited, it, grid_len, cfg,
                   seed, params, attempts, adapt_calls, cfg_warnings, collected,
                   failed, printed>>

\* The generator ends: it exits zero, exits non-zero (CalledProcessError) or is
\* killed at the time limit (TimeoutExpired); generate_task lines 54-59 log a
\* failure and return.
generator_ends ==
    /\ pc = "generator"
    /\ \E outcome \in Outcomes(time_limited) :
          /\ pc' = AfterGenerator(outcome)
          /\ IF outcome = "exit0"
             THEN /\ status' = "SUCCEEDED"
                  /\ events' = Append(events, "exit0")
                  /\ workdir' = FilesAfterExitZero(domain, workdir)
                  /\ failed' = failed
             ELSE /\ status' = IF outcome = "nonzero" THEN "PROCESS_ERROR"
                                                      ELSE "TIMED_OUT"
                  /\ events' = events \o <<outcome, "error">>
                  /\ workdir' \in FilesAfterFailure(domain, workdir)
                  /\ failed' = TRUE
    /\ UNCHANGED <<float_args, domain, dry_run, num_random_seeds, time_limited, it, grid_len, cfg,
                   seed, params, attempts, adapt_calls, invoked, cfg_invoked,
                   cfg_warnings, tmp_dir_exists, collected, fs_touched, printed,
                   exit_code>>

\* generate_task line 61: the produced files are handed to the collector.
collect ==
    /\ pc = "collect_task"
    /\ pc' = "for_seed"
    /\ collected' = collect_task(domain, params, seed, workdir)
    /\ workdir' = [workdir EXCEPT !.problem_file = "absent",
                                  !.problem_complete = FALSE,
                                  !.domain_file = "absent"]
    /\ events' = Append(events, "collect")
    /\ fs_touched' = TRUE
    /\ UNCHANGED <<float_args, domain, dry_run, num_random_seeds, time_limited, it, grid_len, cfg,
                   seed, status, params, attempts, adapt_calls, invoked, cfg_invoked,
                   cfg_warnings, tmp_dir_exists, failed, printed, exit_code>>

\* main() line 104: shutil.rmtree(tmp_dir, ignore_errors=False) removes the
\* working directory, and raises FileNotFoundError when there is none.
rmtree ==
    /\ pc = "rmtree"
    /\ IF tmp_dir_exists
       THEN /\ pc' = "print"
            /\ tmp_dir_exists' = FALSE
            /\ workdir' = NoFiles
            /\ fs_touched' = TRUE
            /\ exit_code' = exit_code
       ELSE /\ pc' = "exit"
            /\ exit_code' = 1
            /\ UNCHANGED <<tmp_dir_exists, workdir, fs_touched>>
    /\ UNCHANGED <<float_args, domain, dry_run, num_random_seeds, time_limited, it, grid_len, cfg,
                   seed, status, params, events, attempts, adapt_calls, invoked,
                   cfg_invoked, cfg_warnings, collected, failed, printed>>

\* main() line 105: print(f"Number of configurations: {len(grid)}"), and the
\* script ends.
print_number ==
    /\ pc = "print"
    /\ pc' = "exit"
    /\ printed' = grid_len
    /\ exit_code' = 0
    /\ UNCHANGED <<float_args, domain, dry_run, num_random_seeds, time_limited, it, grid_len, cfg,
                   seed, status, params, events, attempts, adapt_calls, invoked,
                   cfg_invoked, cfg_warnings, tmp_dir_exists, workdir, collected,
                   fs_touched, failed>>

Next ==
    \/ generate_grid
    \/ check_dry_run
    \/ for_cfg
    \/ for_seed
    \/ adapt_parameters
    \/ generate_input_files
    \/ generator_ends
    \/ collect
    \/ rmtree
    \/ print_number

Spec == Init /\ [][Next]_vars

-----------------------------------------------------------------------------
(* get_float on its own: a domain with one float parameter is declared     *)
(* with arguments drawn from bounded sets, and then run like any other.    *)

\* The ends of the float ranges tried, in 1/FloatScale.
FloatPoints == {FloatUnit * i : i \in 0..MaxFloatPoint}

\* The precisions tried, in 1/FloatScale.
FloatPrecisions == {FloatUnit * i : i \in 1..MaxFloatPrecision}

\* The domain being declared, before its parameter descriptor is built.
FloatDomain(attributes) ==
    Domain("float_range",
           <<<<"lit", "generate">>, <<"ph", "value">>, <<"ph", "seed">>>>,
           attributes, None)

\* A call get_float("value", lower=..., upper=..., precision=...) is about to
\* be made while the registry entry is built.
FloatInit ==
    /\ \E lower \in FloatPoints, upper \in FloatPoints, precision \in FloatPrecisions :
          /\ lower <= upper
          /\ float_args = [lower |-> lower, upper |-> upper, precision |-> precision]
    /\ domain = FloatDomain(<<>>)
    /\ pc = "get_float"
    /\ it = <<>>
    /\ dry_run \in BOOLEAN
    /\ num_random_seeds \in 0..MaxSeeds
    /\ time_limited \in BOOLEAN
    /\ grid_len = 0
    /\ cfg = NoCfg
    /\ seed = -1
    /\ status = "NONE"
    /\ params = NoCfg
    /\ events = <<>>
    /\ attempts = 0
    /\ adapt_calls = 0
    /\ invoked = 0
    /\ cfg_invoked = 0
    /\ cfg_warnings = 0
    /\ tmp_dir_exists = FALSE
    /\ workdir = NoFiles
    /\ collected = NoFile
    /\ fs_touched = FALSE
    /\ failed = FALSE
    /\ printed = -1
    /\ exit_code = -1

\* get_float returns the descriptor, the domain is declared with it and main()
\* starts on it.
get_float_call ==
    /\ pc = "get_float"
    /\ domain' = FloatDomain(<<get_float("value", float_args.lower, float_args.upper,
                                         float_args.precision)>>)
    /\ it' = FirstIt(domain')
    /\ pc' = "generate_grid"
    /\ UNCHANGED <<float_args, dry_run, num_random_seeds, time_limited, grid_len, cfg,
                   seed, status, params, events, attempts, adapt_calls, invoked,
                   cfg_invoked, cfg_warnings, tmp_dir_exists, workdir, collected,
                   fs_touched, failed, printed, exit_code>>

FloatNext ==
    \/ get_float_call
    \/ Next

FloatSpec == FloatInit /\ [][FloatNext]_vars

-----------------------------------------------------------------------------
(* Properties.                                                             *)

\* The size of a parameter's admissible set, from its descriptor.
AdmissibleSize(hp) ==
    CASE hp.kind = "UniformIntegerHyperparameter" -> hp.upper - hp.lower + 1
      [] hp.kind = "CategoricalHyperparameter" -> Len(hp.choices)
      [] hp.kind = "Constant" -> 1

\* The product of the admissible-set sizes of a domain's parameters.
AdmissibleProduct(d) ==
    LET prod[k \in 0..Len(d.attributes)] ==
            IF k = 0 THEN 1 ELSE prod[k - 1] * AdmissibleSize(d.attributes[k])
    IN  prod[Len(d.attributes)]

\* The number of index vectors before i when the admissible sets are
\* enumerated with the last parameter varying fastest.
Rank(d, i) ==
    LET r[k \in 0..Len(i)] ==
            IF k = 0 THEN 0 ELSE r[k - 1] * AdmissibleSize(d.attributes[k]) + i[k] - 1
    IN  r[Len(i)]

\* The index vector with r vectors before it.
ItAt(d, r) ==
    LET n == Len(d.attributes)
        after[k \in 0..n] ==
            IF k = n THEN 1 ELSE after[k + 1] * AdmissibleSize(d.attributes[k + 1])
    IN  [k \in 1..n |-> ((r \div after[k]) % AdmissibleSize(d.attributes[k])) + 1]

NoDuplicates(s) == \A i, j \in 1..Len(s) : s[i] = s[j] => i = j

InLoop == pc \in {"for_seed", "adapt_parameters", "generate_input_files",
                  "generator", "collect_task"}

InAttempt == pc \in {"adapt_parameters", "generate_input_files", "generator",
                     "collect_task"}

AfterLoop == ~dry_run /\ pc \in {"rmtree", "print", "exit"}

\* The 1-based position in the grid of the configuration the loop is at.
CfgIndex == IF it = <<>> THEN AdmissibleProduct(domain) ELSE Rank(domain, it)

\* The attempt under way is the one the grid order and the seed order give:
\* attempt number (position - 1) * N + seed + 1, for the configuration at that
\* position.
AttemptInOrder ==
    LET index == CfgIndex
    IN  /\ attempts = (index - 1) * num_random_seeds + seed + 1
        /\ cfg = ConfigAt(domain, ItAt(domain, index - 1))

\* C1: the grid has as many configurations as the product of the sizes of the
\* parameters' admissible sets: while the grid is built, the k-th element
\* produced is the k-th index vector (none dropped, none twice) and adapt has
\* not been called; the value sets hold no value twice; the finished grid has
\* the product's size, and that is the size the run reports after all attempts.
C1_GridSizeLaw ==
    /\ pc = "generate_grid" =>
          /\ adapt_calls = 0
          /\ grid_len = Rank(domain, it)
          /\ \A k \in 1..Len(it) : it[k] \in 1..AdmissibleSize(domain.attributes[k])
    /\ pc = "dry_run" =>
          \A k \in 1..Len(domain.attributes) :
              NoDuplicates(ValueSet(domain.attributes[k]))
    /\ pc /= "generate_grid" => grid_len = AdmissibleProduct(domain)
    /\ printed /= -1 => printed = AdmissibleProduct(domain)

\* C1 witness: the grid of tidybot (ranges of step 1 and of step 2) is complete.
C1_Witness ==
    /\ domain.name = "tidybot"
    /\ pc = "dry_run"
    /\ grid_len = 11 * 6 * 3 * 3 * 3 * 2

\* All configurations of a domain's grid.
Configs(d) ==
    LET n == Len(d.attributes)
        upto[k \in 0..n] ==
            IF k = 0 THEN {NoCfg}
            ELSE {DictSet(c, d.attributes[k].name, ValueSet(d.attributes[k])[j]) :
                     c \in upto[k - 1], j \in 1..Len(ValueSet(d.attributes[k]))}
    IN  upto[n]

\* C2: the name under which an attempt's files were collected is the name of
\* no other (grid configuration, seed) pair of the run.
C2_NoFilenameCollision ==
    (collected /= NoFile /\ seed >= 0) =>
        \A c \in Configs(domain) : \A s \in 0..(num_random_seeds - 1) :
            (<<c, s>> /= <<cfg, seed>> /\ Domain_adapt_parameters(domain, c).ok) =>
                CanonicalName(domain, Domain_adapt_parameters(domain, c).parameters, s)
                    /= collected.name

\* C3: failures of the generator never end the batch and never change what
\* is attempted: a run in which attempts failed ends with exit status 0 and
\* its report; after the loop every (configuration, seed) pair has been
\* attempted; each attempt is the one the grid and seed order give; and what
\* an attempt delivers is its own output under its own name, never a file an
\* earlier attempt left in the working directory.
C3_FaultIsolation ==
    /\ (failed /\ pc = "exit") => (exit_code = 0 /\ printed = grid_len)
    /\ AfterLoop => attempts = AdmissibleProduct(domain) * num_random_seeds
    /\ InAttempt => AttemptInOrder
    /\ (collected /= NoFile /\ seed >= 0) =>
          /\ collected.problem = "own"
          /\ uses_per_instance_domain_file(domain) => collected.domain_file = "own"
          /\ collected.name = CanonicalName(domain, params, seed)

\* C3 witness: a run in which attempts failed has ended normally, its last
\* attempt having succeeded.
C3_Witness ==
    /\ failed
    /\ pc = "exit"
    /\ exit_code = 0
    /\ status = "SUCCEEDED"
    /\ attempts > 2

\* C4: adapting the adapted configuration of floortile, grid or maintenance
\* again changes no value and adds no key.
C4_AdaptIdempotent ==
    (status = "ADAPTED" /\ domain.name \in {"floortile", "grid", "maintenance"}) =>
        LET again == Domain_adapt_parameters(domain, params)
        IN  /\ again.ok
            /\ DOMAIN again.parameters = DOMAIN params
            /\ again.parameters = params

\* C4 witness: a grid configuration whose number of keys was clamped.
C4_Witness ==
    /\ status = "ADAPTED"
    /\ domain.name = "grid"
    /\ params["keys"] < params["shapes"] + params["extra_keys"]

\* C5: a barman attempt is rejected exactly when shots < cocktails; a rejected
\* attempt invokes no generator and delivers no file, an accepted one goes on
\* with the configuration unchanged.
C5_BarmanRejection ==
    (domain.name = "barman" /\ InLoop /\ seed >= 0 /\ status /= "PENDING") =>
        /\ status = "REJECTED" <=> cfg["shots"] < cfg["cocktails"]
        /\ status = "REJECTED" =>
              /\ \A k \in 1..Len(events) : events[k] /= "invoke"
              /\ cfg_invoked = 0
              /\ collected = NoFile
        /\ status /= "REJECTED" => params = cfg

\* C5 witness: a barman configuration with shots = cocktails was accepted and
\* its generator invoked.
C5_Witness ==
    /\ domain.name = "barman"
    /\ status = "INVOKED"
    /\ cfg["shots"] = cfg["cocktails"]

\* C6: a --dry-run run never calls adapt, never invokes a generator and never
\* creates, writes or removes anything under destdir.
C6_DryRunNonInvasive ==
    dry_run =>
        /\ attempts = 0
        /\ adapt_calls = 0
        /\ invoked = 0
        /\ ~fs_touched
        /\ ~tmp_dir_exists
        /\ collected = NoFile

\* C6 witness: a dry run with several seeds requested has ended.
C6_Witness ==
    /\ dry_run
    /\ num_random_seeds >= 2
    /\ pc = "exit"
    /\ domain.name = "ferry"

\* C7: a run that ended normally has printed the grid size.
C7_PrintsGridSize ==
    (pc = "exit" /\ exit_code = 0) => printed = grid_len

\* The events an attempt may have gone through when it has a given status.
TracesOf(st) ==
    CASE st = "NONE" -> {<<>>}
      [] st = "PENDING" -> {<<>>}
      [] st = "ADAPTED" -> {<<"adapt">>}
      [] st = "INVOKED" -> {<<"adapt", "invoke">>}
      [] st = "SUCCEEDED" -> {<<"adapt", "invoke", "exit0">>,
                              <<"adapt", "invoke", "exit0", "collect">>}
      [] st = "REJECTED" -> {<<"IllegalConfiguration", "warning">>}
      [] st = "PROCESS_ERROR" -> {<<"adapt", "invoke", "nonzero", "error">>}
      [] st = "TIMED_OUT" -> {<<"adapt", "invoke", "timeout", "error">>}

\* C8: an attempt goes PENDING -> ADAPTED -> INVOKED -> terminal or
\* PENDING -> REJECTED: what it has done so far is exactly the path to its
\* status (the generator runs only after adapt accepted, files are collected
\* only after exit status zero), an attempt that is over has one terminal
\* status (a SUCCEEDED one has delivered its files), and no attempt is made
\* twice: the attempt under way is the next one of the grid x seed order.
C8_AttemptStateMachine ==
    /\ events \in TracesOf(status)
    /\ (InLoop /\ seed >= 0 /\ pc = "for_seed") =>
          /\ status \in Terminal
          /\ status = "SUCCEEDED" => (collected /= NoFile /\ Len(events) = 4)
    /\ InAttempt => AttemptInOrder
    /\ pc = "adapt_parameters" => status = "PENDING"
    /\ pc = "generate_input_files" => status = "ADAPTED"
    /\ pc = "generator" => status = "INVOKED"
    /\ pc = "collect_task" => status = "SUCCEEDED"
    /\ collected /= NoFile => status = "SUCCEEDED"

\* C8 witness: an attempt timed out and the loop went on.
C8_Witness ==
    /\ status = "TIMED_OUT"
    /\ pc = "adapt_parameters" \/ pc = "for_seed"
    /\ attempts >= 2

\* C9 as stated: a rejected configuration gets no seed loop and one warning.
C9_RejectedSkipsSeedLoop ==
    status = "REJECTED" => (cfg_invoked = 0 /\ seed = 0 /\ cfg_warnings = 1)

\* C9, amended: for a configuration adapt rejects, the generator is invoked for
\* none of its seeds, but the seed loop runs: every seed's attempt calls adapt,
\* is rejected and logs the warning, once per seed.
C9_RejectedEverySeed ==
    (InLoop /\ seed >= 0 /\ ~Domain_adapt_parameters(domain, cfg).ok) =>
        /\ cfg_invoked = 0
        /\ status \in {"PENDING", "REJECTED"}
        /\ status = "PENDING" => cfg_warnings = seed
        /\ status = "REJECTED" => cfg_warnings = seed + 1
        /\ adapt_calls = attempts - (IF status = "PENDING" THEN 1 ELSE 0)

\* C9 witness: the second seed of a rejected configuration was rejected too.
C9_Witness ==
    /\ status = "REJECTED"
    /\ seed = 1
    /\ cfg_warnings = 2
    /\ cfg_invoked = 0

\* C10: for a domain without adaptation function a full run has invoked the
\* generator |grid| * N times when the loop is over, once per attempt (1800
\* times for ferry with 2 seeds).
C10_InvocationCount ==
    (~dry_run /\ domain._adapt_parameters = None) =>
        /\ AfterLoop => invoked = AdmissibleProduct(domain) * num_random_seeds
        /\ (AfterLoop /\ domain.name = "ferry" /\ num_random_seeds = 2) =>
              invoked = 1800
        /\ invoked = attempts - (IF InAttempt /\ status \in {"PENDING", "ADAPTED"}
                                 THEN 1 ELSE 0)
        /\ InAttempt => AttemptInOrder

\* C10 witness: the ferry run with 2 seeds is over.
C10_Witness ==
    /\ domain.name = "ferry"
    /\ num_random_seeds = 2
    /\ ~dry_run
    /\ pc = "exit"
    /\ invoked = 1800

\* A full run has come to its end with every attempt made.
RunCompleted == ~dry_run /\ pc = "exit" /\ printed /= -1

\* C11: the exit status tells whether an attempt failed: a completed run
\* without failed attempts exits with status 0, so a completed run in which an
\* attempt ended PROCESS_ERROR or TIMED_OUT exits with another status.
C11_ExitStatusReflectsFailures ==
    RunCompleted => (failed <=> exit_code /= 0)

\* C12: in a full run the working directory exists when the removal step is
\* reached, the removal step does not abort the run, and the directory is gone
\* when the run ends, whatever the attempts did and however many there were.
C12_TmpDirRemoved ==
    /\ (~dry_run /\ pc = "rmtree") => tmp_dir_exists
    /\ (~dry_run /\ pc = "exit") => (exit_code = 0 /\ ~tmp_dir_exists)

\* The names of the placeholders of a domain's command template.
Placeholders(d) ==
    {d.command_template[k][2] :
        k \in {j \in 1..Len(d.command_template) : d.command_template[j][1] = "ph"}}

\* The names of a domain's declared parameter descriptors.
ParameterNames(d) == {d.attributes[k].name : k \in 1..Len(d.attributes)}

\* The keys a domain's adaptation function adds to a configuration of the grid
\* (taken on the first one; a rejected configuration gets none).
AddedKeys(d) ==
    LET c == ConfigAt(d, FirstIt(d))
    IN  (DOMAIN Domain_adapt_parameters(d, c).parameters) \ (DOMAIN c)

\* C13 as stated: every placeholder is a declared parameter or the seed.
C13_PlaceholdersDeclared ==
    Placeholders(domain) \subseteq ParameterNames(domain) \cup {"seed"}

\* C13, amended: every placeholder is a declared parameter, a key the domain's
\* adaptation function adds to the configuration, or the seed; only grid (keys,
\* locks) and maintenance (planes, mechanics, cities, visits) have placeholders
\* that are not declared parameters.
C13_PlaceholdersDeclaredOrAdapted ==
    /\ Placeholders(domain)
          \subseteq ParameterNames(domain) \cup AddedKeys(domain) \cup {"seed"}
    /\ domain.name = "grid" =>
          Placeholders(domain) \ (ParameterNames(domain) \cup {"seed"})
              = {"keys", "locks"}
    /\ domain.name = "maintenance" =>
          Placeholders(domain) \ (ParameterNames(domain) \cup {"seed"})
              = {"planes", "mechanics", "cities", "visits"}
    /\ domain.name \notin {"grid", "maintenance"} => C13_PlaceholdersDeclared

\* C13 witness: the maintenance generator runs on a command whose placeholder
\* planes is no declared parameter and was filled with the adapted value.
C13_Witness ==
    /\ domain.name = "maintenance"
    /\ pc = "generator"
    /\ "planes" \in Placeholders(domain) \ ParameterNames(domain)
    /\ "planes" \in DOMAIN params

\* No attempt is under way: none was made yet, or the last one is over.
NoAttemptOpen == status \in Terminal \cup {"NONE"}

\* C14: the attempts come one after the other in grid order, seeds ascending.
\* A new attempt starts only when none is open, for the same configuration and
\* the next seed, the first seed being 0; the loop moves to another
\* configuration only when no attempt is open and the N seeds of the current
\* one are done (seed = N - 1), and then to the next configuration of the
\* grid; and while an attempt is open, no other step of the loop is taken.
C14_SequentialOrder ==
    [][ /\ (attempts' /= attempts) =>
              /\ attempts' = attempts + 1
              /\ NoAttemptOpen
              /\ status' = "PENDING"
              /\ cfg' = cfg
              /\ seed' = seed + 1
              /\ seed' < num_random_seeds
        /\ (cfg' /= cfg) =>
              /\ NoAttemptOpen
              /\ attempts' = attempts
              /\ cfg /= NoCfg => seed = num_random_seeds - 1
              /\ CfgIndex' = CfgIndex + 1
              /\ cfg' = ConfigAt(domain, ItAt(domain, CfgIndex))
              /\ seed' = -1
        /\ (~NoAttemptOpen) =>
              /\ pc \in {"adapt_parameters", "generate_input_files", "generator"}
              /\ seed' = seed /\ cfg' = cfg /\ attempts' = attempts
        /\ (pc = "rmtree" /\ ~dry_run) =>
              attempts = AdmissibleProduct(domain) * num_random_seeds
      ]_vars

\* C14 witness: the second seed of the third configuration is being attempted,
\* as attempt number 6.
C14_Witness ==
    /\ num_random_seeds = 2
    /\ CfgIndex = 3
    /\ seed = 1
    /\ attempts = 6
    /\ status = "INVOKED"

\* The choices of the float parameter declared by the get_float call.
FloatChoices == domain.attributes[1].choices

\* C15: get_float's admissible set for [lower, upper] at precision p is
\* lower, lower + p, lower + 2p, ... up to the last such value that is at most
\* upper: it starts at lower, its k-th value is lower + (k - 1) p (so no value
\* comes twice), no value exceeds upper, the next step would exceed upper, and
\* upper is its last value when upper - lower is a multiple of p. [1.0, 2.0] at
\* 0.5 gives 1.0, 1.5, 2.0; [0.2, 0.8] at 0.2 gives 4 values and [0.3, 0.9] at
\* 0.3 gives 3. The grid built from the descriptor has one element per value.
C15_FloatAdmissibleSet ==
    (float_args /= NoFloatArgs /\ pc /= "get_float") =>
        LET lower == float_args.lower
            upper == float_args.upper
            p == float_args.precision
            n == Len(FloatChoices)
        IN  /\ n >= 1
            /\ FloatChoices[1] = lower
            /\ \A k \in 1..n : FloatChoices[k] = lower + (k - 1) * p
            /\ FloatChoices[n] <= upper
            /\ FloatChoices[n] + p > upper
            /\ (upper - lower) % p = 0 => FloatChoices[n] = upper
            /\ (lower = 100 /\ upper = 200 /\ p = 50) => FloatChoices = <<100, 150, 200>>
            /\ (lower = 20 /\ upper = 80 /\ p = 20) => n = 4
            /\ (lower = 30 /\ upper = 90 /\ p = 30) => n = 3
            /\ pc \notin {"get_float", "generate_grid"} => grid_len = n

\* C15 witness: the range [1.0, 2.0] at precision 0.5 was declared and the
\* grid built from it has its three values.
C15_Witness ==
    /\ float_args = [lower |-> 100, upper |-> 200, precision |-> 50]
    /\ pc = "dry_run"
    /\ grid_len = 3
    /\ FloatChoices = <<100, 150, 200>>

\* The outcomes of an attempt that did not produce its files.
Unsuccessful == {"REJECTED", "PROCESS_ERROR", "TIMED_OUT"}

GridCfg == ConfigAt(domain, ItAt(domain, CfgIndex - 1))

\* C18: Domain.adapt_parameters leaves the dict it is given as it was. During
\* every attempt, whatever its seed and whatever came before, main's cfg is
\* the grid configuration as enumerated; what the attempt goes on with after
\* adapt is the adaptation of that grid configuration, nothing else; and a
\* rejected attempt logs the grid configuration.
C18_AdaptLeavesArgument ==
    (InLoop /\ seed >= 0) =>
        LET grid_cfg == GridCfg
            r == Domain_adapt_parameters(domain, grid_cfg)
        IN  /\ cfg = grid_cfg
            /\ status = "PENDING" => params = grid_cfg
            /\ status \in {"ADAPTED", "INVOKED", "SUCCEEDED", "PROCESS_ERROR",
                           "TIMED_OUT"} =>
                  (r.ok /\ params = r.parameters)
            /\ status = "REJECTED" => (~r.ok /\ params = grid_cfg)

\* C18 witness: the second seed's attempt of a floortile configuration whose
\* number of robots adapt lowers: the attempt runs on the lowered number, the
\* loop's configuration still has the grid's.
C18_Witness ==
    /\ domain.name = "floortile"
    /\ seed = 1
    /\ status = "INVOKED"
    /\ cfg["robots"] > cfg["columns"]
    /\ params["robots"] = cfg["columns"]

\* The placeholders of a domain's command template, other than seed, that a
\* configuration has no value for.
MissingPlaceholders(d, parameters) ==
    (Placeholders(d) \ {"seed"}) \ (DOMAIN parameters)

\* C19: for every registered domain and every configuration of its grid that
\* adapt accepts, the adapted configuration has a value for every placeholder
\* of the command template other than seed, and Domain.get_generator_command
\* builds the command without KeyError, each placeholder replaced by that
\* value. This is checked on each configuration as generate_grid enumerates
\* it, and again where the command is built in an attempt; grid's keys and
\* locks and maintenance's planes, mechanics, cities and visits are set.
C19_CommandConstructible ==
    /\ (pc = "generate_grid") =>
          LET r == Domain_adapt_parameters(domain, ConfigAt(domain, it))
              c == get_generator_command(domain, r.parameters, 0)
          IN  r.ok =>
                /\ MissingPlaceholders(domain, r.parameters) = {}
                /\ c.raises = ""
                /\ \A k \in 1..Len(c.command) :
                      domain.command_template[k][1] = "ph" =>
                          c.command[k] =
                              <<"val", IF domain.command_template[k][2] = "seed" THEN 0
                                       ELSE r.parameters[domain.command_template[k][2]]>>
                /\ domain.name = "grid" => {"keys", "locks"} \subseteq DOMAIN r.parameters
                /\ domain.name = "maintenance" =>
                      {"planes", "mechanics", "cities", "visits"}
                          \subseteq DOMAIN r.parameters
    /\ (pc = "generate_input_files") =>
          /\ MissingPlaceholders(domain, params) = {}
          /\ get_generator_command(domain, params, seed).raises = ""
    /\ \A k \in 1..Len(events) : events[k] /= "KeyError"

\* C19 witness: the grid generator was started on a command whose keys and
\* locks placeholders were filled from the adapted configuration.
C19_Witness ==
    /\ domain.name = "grid"
    /\ status = "INVOKED"
    /\ {"keys", "locks"} \subseteq Placeholders(domain) \cap DOMAIN params
    /\ {"keys", "locks"} \cap DOMAIN cfg = {}

\* C20: every configuration of the grid domain's grid has x, y in 2..5, shapes
\* and extra_keys in 1..2 and percentage_cells_locked in {0.3, 0.6, 0.9}, is
\* accepted by adapt, and is adapted to a configuration with
\* shapes <= keys <= x*y - 1 and shapes <= locks < x*y that has the grid's
\* values of shapes, x, y, extra_keys, prob_key_in_goal and
\* percentage_cells_locked. This is checked on each configuration as
\* generate_grid enumerates it, and on the attempts of the full run.
C20_GridDomainConstraints ==
    /\ (domain.name = "grid" /\ pc = "generate_grid") =>
          LET c == ConfigAt(domain, it)
              r == Domain_adapt_parameters(domain, c)
              a == r.parameters
          IN  /\ c["x"] \in 2..5 /\ c["y"] \in 2..5
              /\ c["shapes"] \in 1..2 /\ c["extra_keys"] \in 1..2
              /\ c["percentage_cells_locked"] \in {30, 60, 90}
              /\ r.ok
              /\ a["shapes"] <= a["keys"] /\ a["keys"] <= a["x"] * a["y"] - 1
              /\ a["shapes"] <= a["locks"] /\ a["locks"] < a["x"] * a["y"]
              /\ \A n \in DOMAIN c : a[n] = c[n]
              /\ DOMAIN a = (DOMAIN c) \cup {"keys", "locks"}
    /\ (domain.name = "grid" /\ InLoop /\ seed >= 0) =>
          /\ status /= "REJECTED"
          /\ status \notin {"PENDING", "REJECTED"} =>
                /\ params["shapes"] <= params["keys"]
                /\ params["keys"] <= params["x"] * params["y"] - 1
                /\ params["shapes"] <= params["locks"]
                /\ params["locks"] < params["x"] * params["y"]
                /\ \A n \in DOMAIN cfg : params[n] = cfg[n]
    /\ (domain.name = "grid" /\ pc = "dry_run") => grid_len = 4 * 4 * 2 * 2 * 2 * 3

\* C20 witness: the attempt for x = y = 2, shapes = 2 and 30 percent locked
\* cells runs with the number of locks raised from int(4 * 0.3) = 1 to the
\* number of shapes.
C20_Witness ==
    /\ domain.name = "grid"
    /\ status = "INVOKED"
    /\ cfg["x"] = 2 /\ cfg["y"] = 2 /\ cfg["shapes"] = 2
    /\ cfg["percentage_cells_locked"] = 30
    /\ params["locks"] = 2
    /\ params["keys"] = 3

=============================================================================
